---- MODULE Spec2Model ----
(***************************************************************************)
(* A model of the sh61 shell (src/pset5/sh61.c): the command-list builder  *)
(* of eval_line, the executor start_command, the list driver run_list and  *)
(* the read loop of main, together with the child processes the shell      *)
(* forks and the kernel's waitpid.                                         *)
(*                                                                         *)
(* One input line is a sequence of tokens, as parse_shell_token hands them *)
(* out one per call.  The linked list of struct command is the sequence    *)
(* cmds: c1 is cmds[1], `current` of eval_line is the last element, and    *)
(* x->next == NULL holds of the last element only.                         *)
(***************************************************************************)
EXTENDS Integers, Sequences, FiniteSets, TLC

\* ------------------------------------------------------------------ bounds
MaxLineLen == 3     \* tokens in one input line
MaxProcs == 3       \* process-table slots: unreaped children at one time

\* --------------------------------------------------------- program constants
TOKEN_NORMAL == 0
TOKEN_REDIRECTION == 1
TOKEN_SEQUENCE == 2
TOKEN_BACKGROUND == 3
TOKEN_PIPE == 4
TOKEN_AND == 5
TOKEN_OR == 6
EXIT_SUCCESS == 0
EXIT_FAILURE == 1
BUILTIN_CD == "cd"
BUILTIN_EXIT == "exit"
RUN_LIST_PGID == 42    \* the pgid run_list hands to start_command

\* ------------------------------------------------------------------- tokens
Word(w) == [type |-> TOKEN_NORMAL, text |-> w]
Op(t, s) == [type |-> t, text |-> s]
SEMI == Op(TOKEN_SEQUENCE, ";")
AMP == Op(TOKEN_BACKGROUND, "&")
PIPE == Op(TOKEN_PIPE, "|")
ANDAND == Op(TOKEN_AND, "&&")
OROR == Op(TOKEN_OR, "||")
REDIR_OUT == Op(TOKEN_REDIRECTION, ">")

\* The lines the read loop may hand to eval_line: job-control lines (words,
\* built-ins, `;` and `&`) and lines of the operators eval_line has no case
\* for (`|`, `&&`, `||`, redirections).
JobTokens == {Word("a"), Word(BUILTIN_CD), Word(BUILTIN_EXIT), SEMI, AMP}
CtlTokens == {Word("a"), Word("b"), PIPE, ANDAND, OROR, REDIR_OUT}
SeqsUpTo(S, n) == UNION {[1..k -> S] : k \in 0..n}
Lines == SeqsUpTo(JobTokens, MaxLineLen) \cup SeqsUpTo(CtlTokens, MaxLineLen)

VARIABLES
    pc,         \* where the shell process is: "read" (main, before fgets),
                \* "parse" (eval_line's token loop), "run" (run_list's loop
                \* head), "wait" (inside run_list's waitpid), "reap" (main's
                \* waitpid after the line), "exited" (process terminated)
    line,       \* the tokens of the line being evaluated
    pos,        \* tokens parse_shell_token has handed out so far
    cmds,       \* the command list built by eval_line
    next,       \* run_list's `next`, as an index into cmds
    child,      \* run_list's `child`: what start_command returned
    procs,      \* the process forked for each command of this line
    orphans,    \* unreaped children of earlier lines: [running, zombie]
    started,    \* the commands start_command was called on, in call order
    exitCause,  \* what terminated the shell process
    exitStatus, \* the status the shell process terminated with
    fgcall,     \* the last call of set_foreground: its argument and caller
    freed,      \* the commands of the list that command_free has freed
    quiet       \* no child of the shell was alive when eval_line began

vars == <<pc, line, pos, cmds, next, child, procs, orphans, started,
          exitCause, exitStatus, fgcall, freed, quiet>>

\* ------------------------------------------------------------ struct command
command_alloc == [argc |-> 0, argv |-> <<>>, pid |-> -1, background |-> 0]

command_append_arg(c, word) ==
    [c EXCEPT !.argv = Append(c.argv, word), !.argc = c.argc + 1]

\* command_free(c): frees the struct of command number c, its argv array and
\* its words, and nothing else (it does not follow c->next).
command_free(c) == freed \cup {c}

\* --------------------------------------------------------------- processes
\* The shell's own process group: an id of the kernel's choice that is no
\* child's pid and not the 42 of run_list, which names no existing group.
ShellPgid == RUN_LIST_PGID + 1
NoProc == [state |-> "none", status |-> -1, execfail |-> FALSE, pgid |-> -1]
\* The child right after fork(): it inherits the shell's process group, and
\* neither branch of start_command calls setpgid (`(void) pgid`).
Forked == [state |-> "running", status |-> -1, execfail |-> FALSE, pgid |-> ShellPgid]
\* The pid the kernel gives the child forked for command i (any positive
\* number; the commands of one line get distinct ones).
ForkPid(i) == i

Live(p) == p.state \in {"running", "zombie", "inshell"}
NLive == orphans.running + orphans.zombie
         + Cardinality({i \in DOMAIN procs : Live(procs[i])})

\* ------------------------------------------------------------- tokenizer
\* parse_shell_token(str, &type, &token): the next token of the line and the
\* advanced position, or NULL (here: no token left) at the end of the line.
parse_shell_token(l, p) ==
    IF p < Len(l) THEN [s |-> p + 1, type |-> l[p + 1].type, token |-> l[p + 1].text]
    ELSE [s |-> -1, type |-> TOKEN_SEQUENCE, token |-> ""]

\* ------------------------------------------------------------------ waitpid
\* Which children waitpid(pid, ...) selects: -1 any child, 0 any child in the
\* caller's process group, > 0 that child alone.  start_command never moves a
\* child out of the shell's group, so 0 selects every child too.
Matches(pid, i) == pid = -1 \/ pid = 0 \/ pid = ForkPid(i)
OrphanMatches(pid) == pid = -1 \/ pid = 0

HasChild(pid) ==
    \/ OrphanMatches(pid) /\ orphans.running + orphans.zombie > 0
    \/ \E i \in DOMAIN procs : Matches(pid, i) /\ Live(procs[i])

HasZombie(pid) ==
    \/ OrphanMatches(pid) /\ orphans.zombie > 0
    \/ \E i \in DOMAIN procs : Matches(pid, i) /\ procs[i].state = "zombie"

\* waitpid reaps exactly one selected zombie per call; which one is the
\* kernel's choice.  Each result is the pair <<procs, orphans>> after the call.
ReapOne(pid) ==
    {<<[procs EXCEPT ![i].state = "reaped"], orphans>> :
        i \in {j \in DOMAIN procs : Matches(pid, j) /\ procs[j].state = "zombie"}}
    \cup (IF OrphanMatches(pid) /\ orphans.zombie > 0
          THEN {<<procs, [orphans EXCEPT !.zombie = @ - 1]>>}
          ELSE {})

\* Mutation: the non-blocking waitpid returns at once without reaping.
waitpid_nohang_noreap(pid) ==
    {<<procs, orphans>>}

\* waitpid(pid, 0, WNOHANG): reaps one zombie if there is one, returns at once.
waitpid_nohang(pid) ==
    IF HasZombie(pid) THEN ReapOne(pid) ELSE {<<procs, orphans>>}

\* waitpid(pid, &status, 0) cannot return yet: children are left, none of
\* them has terminated.
Blocked == pc = "wait" /\ HasChild(child) /\ ~HasZombie(child)

\* ---------------------------------------------------------------- eval_line
\* Mutation: the background flag lands on the command just allocated, not on
\* the one the `&` ends.
eval_token_bgnext(cs, type, token) ==
    LET n == Len(cs)
        a == IF type = TOKEN_NORMAL
             THEN [cs EXCEPT ![n] = command_append_arg(cs[n], token)]
             ELSE cs
        b == IF type = TOKEN_SEQUENCE \/ type = TOKEN_BACKGROUND
             THEN Append(a, command_alloc)
             ELSE a
    IN  IF type = TOKEN_BACKGROUND
        THEN [b EXCEPT ![Len(b)].background = 1]
        ELSE b

\* One iteration of eval_line's token loop on the list built so far.
eval_token(cs, type, token) ==
    LET n == Len(cs)
        a == IF type = TOKEN_NORMAL
             THEN [cs EXCEPT ![n] = command_append_arg(cs[n], token)]
             ELSE cs
        b == IF type = TOKEN_BACKGROUND
             THEN [a EXCEPT ![n].background = 1]
             ELSE a
    IN  IF type = TOKEN_SEQUENCE \/ type = TOKEN_BACKGROUND
        THEN Append(b, command_alloc)
        ELSE b

\* ------------------------------------------------------------ start_command
IsBuiltinCd(c) == c.argv[1] = BUILTIN_CD
IsBuiltinExit(c) == c.argv[1] = BUILTIN_EXIT

\* chdir(c->argv[1]): with no argument argv[1] is the NULL terminator and
\* chdir fails; otherwise the path may or may not name a directory.
ChdirResults(c) == IF c.argc >= 2 THEN {0, -1} ELSE {-1}

\* fork() fails when the process table is full and may fail for lack of memory.
ForkResults == IF NLive < MaxProcs THEN {TRUE, FALSE} ELSE {FALSE}

\* Mutation: a failing chdir takes the shell down instead of returning -1.
CdReturnExits(rc) ==
    IF rc = -1 THEN [kind |-> "_exit", ret |-> EXIT_FAILURE, forks |-> FALSE, by |-> "cd"]
    ELSE [kind |-> "return", ret |-> 0, forks |-> FALSE, by |-> "cd"]
\* Mutation: the exit built-in returns to run_list instead of terminating.
ExitBuiltinReturns == [kind |-> "return", ret |-> 0, forks |-> FALSE, by |-> "exit"]

\* The ways start_command leaves the shell process: the value it returns and
\* whether a child was forked, or the termination of the process (by whom).
CdReturn(rc) ==
    IF rc = -1 THEN [kind |-> "return", ret |-> -1, forks |-> FALSE, by |-> "cd"]
    ELSE [kind |-> "return", ret |-> 0, forks |-> FALSE, by |-> "cd"]
ExitBuiltin == [kind |-> "_exit", ret |-> EXIT_SUCCESS, forks |-> FALSE, by |-> "exit"]
ParentReturn(c) == [kind |-> "return", ret |-> c.pid, forks |-> TRUE, by |-> "fork"]
ForkFailed == [kind |-> "return", ret |-> -1, forks |-> FALSE, by |-> "fork"]

\* strcmp(c->argv[0], ...) on a command without words: argv is NULL, and the
\* dereference kills the process.
NullArgv == [kind |-> "_exit", ret |-> -1, forks |-> FALSE, by |-> "sigsegv"]

\* What start_command(c, pgid) does in the shell process: return a value
\* (having forked a child or not) or terminate the process.
start_command(c, pgid, rc, forkOk) ==
    IF c.argc = 0 THEN NullArgv
    ELSE IF IsBuiltinCd(c) THEN CdReturn(rc)
    ELSE IF IsBuiltinExit(c) THEN ExitBuiltin
    ELSE IF forkOk THEN ParentReturn(c)
    ELSE ForkFailed

\* Mutation: no _exit after the failed execvp, so the child reaches the
\* `return -1` and goes on in run_list as a second shell.
ExecFailedReturns == [state |-> "inshell", status |-> -1, execfail |-> TRUE]

\* The child's side of start_command when execvp returns (it failed):
\* perror, then _exit(EXIT_FAILURE).
ExecFailed == [state |-> "zombie", status |-> EXIT_FAILURE, execfail |-> TRUE]

\* ----------------------------------------------------------------- run_list
\* Mutation: run_list waits after every command, background or not.
ShouldWaitAlways(c) == TRUE
\* Mutation: run_list never waits, as if every command were a background one.
ShouldWaitNever(c) == FALSE
ShouldWait(c) == c.background = 0
\* Mutation: the loop body runs before the test of next->argc (a do-while).
RunListContinuesAlways(c) == TRUE
\* The loop condition of run_list.
RunListContinues(c) == c.argc # 0
LastInList(n) == n = Len(cmds)

\* The end of one loop iteration: break after the last command (run_list
\* returns and eval_line calls command_free(c1)), else go on.
Advance ==
    IF LastInList(next)
    THEN pc' = "reap" /\ next' = 0 /\ child' = 0 /\ freed' = command_free(1)
    ELSE pc' = "run" /\ next' = next + 1 /\ child' = 0 /\ freed' = freed

\* ------------------------------------------------------------------ actions
Init ==
    /\ pc = "read"
    /\ line = <<>>
    /\ pos = 0
    /\ cmds = <<>>
    /\ next = 0
    /\ child = 0
    /\ procs = <<>>
    /\ orphans = [running |-> 0, zombie |-> 0]
    /\ started = <<>>
    /\ exitCause = "none"
    /\ exitStatus = -1
    /\ fgcall = [pgid |-> 0, by |-> "main"]
    /\ freed = {}
    /\ quiet = FALSE

\* main: fgets delivers a complete line and eval_line(buf) begins.
ReadLine ==
    /\ pc = "read"
    /\ \E l \in Lines : line' = l
    /\ pos' = 0
    /\ cmds' = <<command_alloc>>
    /\ pc' = "parse"
    /\ quiet' = (NLive = 0)
    /\ UNCHANGED <<next, child, procs, orphans, started, exitCause, exitStatus,
                   fgcall, freed>>

\* main: fgets returns without a complete line (EINTR, or a partial line):
\* no eval_line, straight to the waitpid at the end of the loop body.
ReadPartial ==
    /\ pc = "read"
    /\ pc' = "reap"
    /\ UNCHANGED <<line, pos, cmds, next, child, procs, orphans, started,
                   exitCause, exitStatus, fgcall, freed, quiet>>

\* main: end of input (or a read error): the loop ends and main returns 0.
ReadEOF ==
    /\ pc = "read"
    /\ pc' = "exited"
    /\ exitCause' = "eof"
    /\ exitStatus' = 0
    /\ UNCHANGED <<line, pos, cmds, next, child, procs, orphans, started,
                   fgcall, freed, quiet>>

\* eval_line: one iteration of the token loop, ending in waitpid(-1,0,WNOHANG).
ParseToken ==
    /\ pc = "parse"
    /\ parse_shell_token(line, pos).s # -1
    /\ LET t == parse_shell_token(line, pos)
       IN  /\ cmds' = eval_token(cmds, t.type, t.token)
           /\ pos' = t.s
    /\ \E r \in waitpid_nohang(-1) : procs' = r[1] /\ orphans' = r[2]
    /\ UNCHANGED <<pc, line, next, child, started, exitCause, exitStatus,
                   fgcall, freed, quiet>>

\* eval_line: parse_shell_token returned NULL; run the list if c1 has words,
\* then command_free(c1) and return to main.
ParseEnd ==
    /\ pc = "parse"
    /\ parse_shell_token(line, pos).s = -1
    /\ procs' = [i \in 1..Len(cmds) |-> NoProc]
    /\ IF cmds[1].argc # 0
       THEN pc' = "run" /\ next' = 1 /\ freed' = freed
       ELSE pc' = "reap" /\ next' = 0 /\ freed' = command_free(1)
    /\ UNCHANGED <<line, pos, cmds, child, orphans, started, exitCause, exitStatus,
                   fgcall, quiet>>

\* run_list: the loop condition fails on a command without words; run_list
\* returns and eval_line calls command_free(c1).
RunListEnd ==
    /\ pc = "run"
    /\ ~RunListContinues(cmds[next])
    /\ pc' = "reap"
    /\ next' = 0
    /\ freed' = command_free(1)
    /\ UNCHANGED <<line, pos, cmds, child, procs, orphans, started,
                   exitCause, exitStatus, fgcall, quiet>>

\* run_list: child = start_command(next, 42), then either the blocking
\* waitpid begins or (background) the iteration ends.
StartCommand ==
    /\ pc = "run"
    /\ RunListContinues(cmds[next])
    /\ \E rc \in ChdirResults(cmds[next]), forkOk \in ForkResults :
         LET r == start_command(cmds[next], RUN_LIST_PGID, rc, forkOk)
         IN  /\ started' = Append(started, next)
             /\ procs' = IF r.forks THEN [procs EXCEPT ![next] = Forked] ELSE procs
             /\ IF r.kind = "_exit"
                THEN /\ pc' = "exited"
                     /\ exitCause' = r.by
                     /\ exitStatus' = r.ret
                     /\ UNCHANGED <<next, child, freed>>
                ELSE IF ShouldWait(cmds[next])
                THEN /\ pc' = "wait"
                     /\ child' = r.ret
                     /\ UNCHANGED <<next, exitCause, exitStatus, freed>>
                ELSE /\ Advance
                     /\ UNCHANGED <<exitCause, exitStatus>>
    /\ UNCHANGED <<line, pos, cmds, orphans, fgcall, quiet>>

\* run_list: waitpid(child, &status, 0) returns: it reaped one selected
\* zombie, or there is no selected child at all (ECHILD).
WaitReturn ==
    /\ pc = "wait"
    /\ ~Blocked
    /\ \E r \in waitpid_nohang(child) : procs' = r[1] /\ orphans' = r[2]
    /\ Advance
    /\ UNCHANGED <<line, pos, cmds, started, exitCause, exitStatus, fgcall, quiet>>

\* The children of the line just evaluated, counted as children of an
\* earlier line: the shell keeps no record of them once eval_line has returned.
Disown(ps, os) ==
    [running |-> os.running
         + Cardinality({i \in DOMAIN ps : ps[i].state \in {"running", "inshell"}}),
     zombie |-> os.zombie
         + Cardinality({i \in DOMAIN ps : ps[i].state = "zombie"})]

\* main: waitpid(-1, 0, WNOHANG) at the end of the loop body, then back to
\* the loop condition; the line's list is gone (eval_line's locals are dead).
MainReap ==
    /\ pc = "reap"
    /\ \E r \in waitpid_nohang(-1) : orphans' = Disown(r[1], r[2])
    /\ procs' = <<>>
    /\ line' = <<>>
    /\ pos' = 0
    /\ cmds' = <<>>
    /\ started' = <<>>
    /\ freed' = {}
    /\ quiet' = FALSE
    /\ pc' = "read"
    /\ UNCHANGED <<next, child, exitCause, exitStatus, fgcall>>

\* A child: execvp succeeded and the program ran to its exit, with any status.
ChildExit ==
    \E i \in DOMAIN procs, st \in {EXIT_SUCCESS, EXIT_FAILURE} :
        /\ procs[i].state = "running"
        /\ procs' = [procs EXCEPT ![i].state = "zombie", ![i].status = st]
        /\ UNCHANGED <<pc, line, pos, cmds, next, child, orphans, started,
                       exitCause, exitStatus, fgcall, freed, quiet>>

\* A child: execvp failed.
ChildExecFail ==
    \E i \in DOMAIN procs :
        /\ procs[i].state = "running"
        /\ procs' = [procs EXCEPT ![i].state = ExecFailed.state,
                                   ![i].status = ExecFailed.status,
                                   ![i].execfail = ExecFailed.execfail]
        /\ UNCHANGED <<pc, line, pos, cmds, next, child, orphans, started,
                       exitCause, exitStatus, fgcall, freed, quiet>>

\* A child of an earlier line terminates.
OrphanExit ==
    /\ orphans.running > 0
    /\ orphans' = [running |-> orphans.running - 1, zombie |-> orphans.zombie + 1]
    /\ UNCHANGED <<pc, line, pos, cmds, next, child, procs, started,
                   exitCause, exitStatus, fgcall, freed, quiet>>


\* ---------------------------------------------------------- what was written
\* The groups of words of line l between the operators of type sep.
RECURSIVE Split(_, _)
Split(l, sep) ==
    IF l = <<>> THEN << <<>> >>
    ELSE LET rest == Split(Tail(l), sep)
         IN  IF Head(l).type = sep
             THEN << <<>> >> \o rest
             ELSE << <<Head(l).text>> \o rest[1] >> \o Tail(rest)

OnlyTypes(l, types) == \A k \in 1..Len(l) : l[k].type \in types

Evaluating == pc \in {"run", "wait", "reap"} \/ (pc = "exited" /\ exitCause # "eof")
Terminated(i) == procs[i].state \in {"zombie", "reaped"}
NZombies == orphans.zombie + Cardinality({i \in DOMAIN procs : procs[i].state = "zombie"})
NRunning == orphans.running + Cardinality({i \in DOMAIN procs : procs[i].state = "running"})

\* ------------------------------------------------------------------- claims

\* The commands written on line l: its non-empty groups of words, in order.
WrittenCommands(l, sep) == SelectSeq(Split(l, sep), LAMBDA g : g # <<>>)

\* C1: on a line whose commands are separated only by `;`, start_command is
\* called on the commands as written, each once and in the written order, and
\* when eval_line returns it has been called on every one of them, whatever
\* status the earlier ones exited with.
C1_SequenceInOrder ==
    (Evaluating /\ OnlyTypes(line, {TOKEN_NORMAL, TOKEN_SEQUENCE})) =>
        LET w == WrittenCommands(line, TOKEN_SEQUENCE)
        IN  /\ Len(started) <= Len(w)
            /\ \A k \in 1..Len(started) : cmds[started[k]].argv = w[k]
            /\ \A j, k \in 1..Len(started) : j < k => started[j] < started[k]
            /\ pc = "reap" => Len(started) = Len(w)

\* eval_line has returned from the line `a op b` (a, b single words).
CondLine(op) ==
    /\ pc = "reap"
    /\ Len(line) = 3
    /\ line[1].type = TOKEN_NORMAL
    /\ line[2].type = op
    /\ line[3].type = TOKEN_NORMAL
\* start_command was called on a command of its own made of the word b.
SecondStarted ==
    \E k \in 1..Len(started) :
        started[k] > 1 /\ cmds[started[k]].argv = <<line[3].text>>

\* C2: after `a && b`, b was started as its own process iff a exited with
\* status 0; after `a || b`, iff a exited with a non-zero status.
C2_Conditionals ==
    /\ CondLine(TOKEN_AND) =>
          (SecondStarted <=> (Terminated(1) /\ procs[1].status = EXIT_SUCCESS))
    /\ CondLine(TOKEN_OR) =>
          (SecondStarted <=> (Terminated(1) /\ procs[1].status # EXIT_SUCCESS))

\* C3: a command that follows a foreground command is started only after the
\* foreground command's process has terminated, and eval_line returns only
\* after every foreground process it started has terminated.
C3_ForegroundFinishesFirst ==
    /\ \A j \in 1..Len(started) : \A i \in 1..(j - 1) :
          cmds[started[i]].background = 0 => procs[started[i]].state # "running"
    /\ pc = "reap" =>
          \A i \in 1..Len(started) :
              cmds[started[i]].background = 0 => procs[started[i]].state # "running"

\* C4: run_list never enters its waitpid for a command terminated by `&`: after
\* starting it, it is at the next command or has left the loop.
C4_NoWaitForBackground ==
    pc = "wait" => cmds[next].background = 0

\* C4 witness: a later command of the list has been started while the process
\* of an earlier background command of the same list is still running.
C4_Witness ==
    \E j \in 1..Len(started) : \E i \in 1..(j - 1) :
        cmds[started[i]].background = 1 /\ procs[started[i]].state = "running"

\* C5: whenever run_list is blocked in its waitpid, the process of the
\* foreground command it has just started is still running (so a built-in or
\* a failed fork never blocks on the background jobs).
C5_BlocksOnlyOnForeground ==
    Blocked => procs[next].state = "running"

\* C6: the waitpid at the end of main's loop body leaves no terminated child
\* unreaped and leaves every running child running.
C6_ReapsAllTerminated ==
    [][(pc = "reap" /\ pc' = "read") => (NZombies' = 0 /\ NRunning' = NRunning)]_vars

\* C7: when start_command is called on the built-in exit, the shell process
\* terminates in that very call with status EXIT_SUCCESS, so start_command is
\* called on no later command of the list.
C7_ExitBuiltin ==
    \A k \in 1..Len(started) :
        IsBuiltinExit(cmds[started[k]]) =>
            /\ k = Len(started)
            /\ pc = "exited"
            /\ exitStatus = EXIT_SUCCESS

\* C7 witness: the shell has terminated at an exit that is followed by a
\* command with words in the same list.
C7_Witness ==
    /\ pc = "exited"
    /\ started # <<>>
    /\ IsBuiltinExit(cmds[started[Len(started)]])
    /\ started[Len(started)] < Len(cmds)
    /\ cmds[started[Len(started)] + 1].argc # 0

\* C8: the shell process terminates only at the end of its input or in a call
\* of start_command on the built-in exit: never after a failed cd, a failed
\* fork or a child's failed exec.
C8_ShellSurvivesErrors ==
    pc = "exited" =>
        \/ exitCause = "eof"
        \/ started # <<>> /\ IsBuiltinExit(cmds[started[Len(started)]])

\* C8 witness: cd has failed (start_command returned -1 for it) and the shell
\* is alive, in run_list.
C8_Witness ==
    /\ pc = "wait"
    /\ IsBuiltinCd(cmds[next])
    /\ child = -1

\* C9: a child whose execvp failed has terminated with a non-zero status, and
\* no child ever runs the shell's code after start_command.
C9_ExecFailureEndsChild ==
    \A i \in DOMAIN procs :
        /\ procs[i].state # "inshell"
        /\ procs[i].execfail =>
              Terminated(i) /\ procs[i].status # EXIT_SUCCESS

\* C9 witness: a child's execvp has failed while the shell is still in
\* run_list, with a further command to start.
C9_Witness ==
    /\ pc = "wait"
    /\ procs[next].execfail
    /\ next < Len(cmds)

\* C10: for a line s1 | s2 | ... | sN the builder has produced N commands, the
\* i-th holding exactly the words of si, and when eval_line returns
\* start_command has been called N times.
C10_PipelineStages ==
    (/\ Evaluating
     /\ OnlyTypes(line, {TOKEN_NORMAL, TOKEN_PIPE})
     /\ \A k \in 1..Len(Split(line, TOKEN_PIPE)) : Split(line, TOKEN_PIPE)[k] # <<>>
     /\ Len(Split(line, TOKEN_PIPE)) >= 2) =>
        LET w == Split(line, TOKEN_PIPE)
        IN  /\ Len(cmds) = Len(w)
            /\ \A i \in 1..Len(w) : cmds[i].argv = w[i]
            /\ pc = "reap" => Len(started) = Len(w)

\* The words of line l that are arguments: every word but the one that
\* follows a redirection operator, which is that operator's target.
RECURSIVE ArgWords(_)
ArgWords(l) ==
    IF l = <<>> THEN <<>>
    ELSE IF Head(l).type = TOKEN_REDIRECTION
         THEN IF Len(l) >= 2 /\ l[2].type = TOKEN_NORMAL
              THEN ArgWords(Tail(Tail(l)))
              ELSE ArgWords(Tail(l))
         ELSE IF Head(l).type = TOKEN_NORMAL
              THEN <<Head(l).text>> \o ArgWords(Tail(l))
              ELSE ArgWords(Tail(l))

\* C11: on a line of words and redirection operators, the word after a
\* redirection operator is that operator's target and is not among the
\* arguments of the command: argv holds the other words only.
C11_RedirectionTarget ==
    (Evaluating /\ cmds # <<>>
     /\ OnlyTypes(line, {TOKEN_NORMAL, TOKEN_REDIRECTION})) =>
        cmds[1].argv = ArgWords(line)

\* The process group start_command(c, pgid) is to put the child of command i
\* in: pgid, or a new group led by the child when pgid is 0.
PipelineGroup(pgid, i) == IF pgid = 0 THEN ForkPid(i) ELSE pgid

\* C12: while run_list waits for a foreground command's process, the last
\* set_foreground call was made by run_list and named that process's group;
\* when the shell is about to read a line, the last call was set_foreground(0).
C12_TerminalFollowsForeground ==
    /\ (pc = "wait" /\ procs[next].state # "none") =>
          (fgcall.by = "run_list" /\ fgcall.pgid = procs[next].pgid)
    /\ pc = "read" => fgcall.pgid = 0

\* C13: every process start_command has forked is in the process group of its
\* pipeline and not in the shell's own group.
C13_OwnProcessGroup ==
    \A i \in DOMAIN procs :
        procs[i].state # "none" =>
            /\ procs[i].pgid = PipelineGroup(RUN_LIST_PGID, i)
            /\ procs[i].pgid # ShellPgid

\* C14: when eval_line has returned, every command structure allocated for
\* the line (with its argument strings) has been freed.
C14_AllCommandsFreed ==
    pc = "reap" => freed = DOMAIN cmds

\* C15: when eval_line returns from a line of words, `;` and `&`, start_command
\* has been called on every command with words, in list order, and on no
\* command without words: an empty command is skipped, not the rest of the list.
C15_EmptyCommandSkipped ==
    (pc = "reap" /\ OnlyTypes(line, {TOKEN_NORMAL, TOKEN_SEQUENCE, TOKEN_BACKGROUND})) =>
        started = SelectSeq([i \in DOMAIN cmds |-> i], LAMBDA i : cmds[i].argc # 0)

\* C16: when start_command has forked a child for a command, it has set the
\* command's pid to the child's process ID and returned it, so the blocking
\* waitpid of run_list is on that very process.
C16_PidOfChild ==
    (pc = "wait" /\ procs[next].state # "none") =>
        /\ cmds[next].pid = ForkPid(next)
        /\ child = ForkPid(next)

\* The groups of words of line l between the operators whose type is in seps.
RECURSIVE SplitAt(_, _)
SplitAt(l, seps) ==
    IF l = <<>> THEN << <<>> >>
    ELSE LET rest == SplitAt(Tail(l), seps)
         IN  IF Head(l).type \in seps
             THEN << <<>> >> \o rest
             ELSE << <<Head(l).text>> \o rest[1] >> \o Tail(rest)

ListOps == {TOKEN_SEQUENCE, TOKEN_BACKGROUND}

\* C17: for a line of words, `;` and `&`, after any number of tokens the list
\* holds one command per operator read, the i-th with exactly the words before
\* the i-th operator (after the one before it), in order, and with background
\* 1 iff that operator is `&`, followed by one command no operator has closed,
\* which holds the words after the last operator and has background 0.
C17_ListAsWritten ==
    ((pc \in {"parse", "run", "wait"} \/ cmds # <<>>)
     /\ OnlyTypes(line, {TOKEN_NORMAL} \cup ListOps)) =>
        LET l == SubSeq(line, 1, pos)
            g == SplitAt(l, ListOps)
            o == SelectSeq(l, LAMBDA t : t.type \in ListOps)
        IN  /\ Len(cmds) = Len(o) + 1
            /\ \A i \in 1..Len(cmds) :
                  /\ cmds[i].argv = g[i]
                  /\ cmds[i].argc = Len(g[i])
                  /\ cmds[i].background =
                        (IF i <= Len(o) /\ o[i].type = TOKEN_BACKGROUND THEN 1 ELSE 0)

\* C17 witness: the whole line `w & w` has been read: a background command
\* and, after it, the command no operator closed, each with its own word.
C17_Witness ==
    /\ pc = "run"
    /\ Len(line) = 3
    /\ line[2].type = TOKEN_BACKGROUND
    /\ Len(cmds) = 2
    /\ cmds[1].argc = 1
    /\ cmds[1].background = 1
    /\ cmds[2].argc = 1
    /\ cmds[2].background = 0

\* C18: start_command is only ever called on a command with at least one
\* argument.
C18_StartedHasArgv0 ==
    \A k \in 1..Len(started) :
        cmds[started[k]].argc >= 1 /\ Len(cmds[started[k]].argv) >= 1

\* C18 witness: start_command has been called on a line that has an empty
\* command between two operators.
C18_Witness ==
    /\ started # <<>>
    /\ \E i \in DOMAIN cmds : i < Len(cmds) /\ cmds[i].argc = 0

\* main's fgets has returned input once more: a whole line or a partial one.
ReadsInput == ReadLine \/ ReadPartial

\* C19: provided the shell keeps reading input, every terminated child is
\* eventually reaped: whenever terminated children are unreaped, a later
\* moment has none.
C19_TerminatedEventuallyReaped ==
    []<><<ReadsInput>>_vars => ((NZombies > 0) ~> (NZombies = 0))

\* C19 witness: a line that began with children of earlier lines unreaped has
\* had them all reaped by the per-token waitpid before starting anything.
C19_Witness ==
    /\ pc = "parse"
    /\ pos >= 1
    /\ ~quiet
    /\ started = <<>>
    /\ NLive = 0

Next ==
    \/ ReadLine
    \/ ReadPartial
    \/ ReadEOF
    \/ ParseToken
    \/ ParseEnd
    \/ RunListEnd
    \/ StartCommand
    \/ WaitReturn
    \/ MainReap
    \/ ChildExit
    \/ ChildExecFail
    \/ OrphanExit

Spec == Init /\ [][Next]_vars

\* The shell's own steps are taken whenever they are possible: the shell is
\* a running process, so a step it can take is not put off forever. Nothing
\* is assumed about the input (fgets may block for good) or about children
\* (a child may run forever).
ShellStep ==
    \/ ParseToken
    \/ ParseEnd
    \/ RunListEnd
    \/ StartCommand
    \/ WaitReturn
    \/ MainReap

LiveSpec == Spec /\ WF_vars(ShellStep)

====
